---- MODULE Spec2Model ----
(***************************************************************************)
(* Signature Injection Engine: the coordinate transformations, the aspect  *)
(* fit, the clamp, and the backend handlers (upload, field create / update *)
(* / delete / value, sign-pdf) with the documents, fields, audit log and   *)
(* stored files they act on.                                               *)
(*                                                                         *)
(* Numbers.  A percentage is an integer k standing for k / PDen.  A        *)
(* length in PDF points produced from a percentage is an integer standing  *)
(* for that many PDen-ths of a point.  The aspect fit divides, so it works *)
(* on fractions <<n, d>> with d >= 0 that follow the rules of the          *)
(* JavaScript numbers the code computes with: <<n, 0>> with n > 0 is       *)
(* Infinity, <<0, 0>> is NaN.  Rounding of doubles is not modelled.        *)
(***************************************************************************)
EXTENDS Integers, Sequences, FiniteSets, TLC

VARIABLES
    documents,   \* Document collection: sequence of records, _id = index
    fields,      \* Field collection: sequence of records (insertion order)
    auditLogs,   \* AuditLog collection: sequence of records (append order)
    uploads,     \* files under uploads/: sequence of byte contents, url = index
    signed,      \* files under signed/: sequence of byte contents, url = index
    nextFieldId, \* next Field _id
    res,         \* the response of the last request handled
    calc         \* the arguments and result of a pure-function call

backendVars == <<documents, fields, auditLogs, uploads, signed, nextFieldId, res>>
vars == <<documents, fields, auditLogs, uploads, signed, nextFieldId, res, calc>>

----------------------------------------------------------------------------
(* Bounds *)

\* percentages are multiples of 1 / PDen
PDen == 10
\* how far beyond [0, 1] the clamp's inputs reach, in steps of 1 / PDen
Over == 1
\* largest asset or box dimension given to the aspect fit
MaxDim == 4

----------------------------------------------------------------------------
(* JavaScript numbers as fractions *)

Min(a, b) == IF a <= b THEN a ELSE b
Max(a, b) == IF a >= b THEN a ELSE b

Num(n) == <<n, 1>>
IsNaN(a) == a[1] = 0 /\ a[2] = 0
IsInf(a) == a[1] # 0 /\ a[2] = 0
IsFinite(a) == a[2] # 0
\* a / b, a * b, a - b on non-negative operands; 0/0, Inf/Inf, 0*Inf and
\* Inf-Inf come out as <<0, 0>> (NaN), x/0 as <<x, 0>> (Infinity)
FDiv(a, b) == <<a[1] * b[2], a[2] * b[1]>>
FMul(a, b) == <<a[1] * b[1], a[2] * b[2]>>
FSub(a, b) == <<a[1] * b[2] - b[1] * a[2], a[2] * b[2]>>
\* comparisons are false as soon as one side is NaN
FGt(a, b) == ~IsNaN(a) /\ ~IsNaN(b) /\ a[1] * b[2] > b[1] * a[2]
FLe(a, b) == ~IsNaN(a) /\ ~IsNaN(b) /\ a[1] * b[2] <= b[1] * a[2]
FEq(a, b) == ~IsNaN(a) /\ ~IsNaN(b) /\ a[1] * b[2] = b[1] * a[2]

----------------------------------------------------------------------------
(* backend/utils/pdfUtils.js *)

\* transformToPdfCoordinates with a seeded fault: the box height is not taken off
transformKeepTop(position, pdfWidth, pdfHeight) ==
    [x |-> position.xPercent * pdfWidth,
     y |-> pdfHeight * PDen - position.yPercent * pdfHeight,
     width |-> position.widthPercent * pdfWidth,
     height |-> position.heightPercent * pdfHeight]

\* transformToPdfCoordinates with a seeded fault: x is scaled by the page
\* height
transformByHeight(position, pdfWidth, pdfHeight) ==
    [x |-> position.xPercent * pdfHeight,
     y |-> pdfHeight * PDen - position.yPercent * pdfHeight
               - position.heightPercent * pdfHeight,
     width |-> position.widthPercent * pdfWidth,
     height |-> position.heightPercent * pdfHeight]

\* percentages to PDF points, Y axis flipped; the result is in PDen-ths
transformToPdfCoordinates(position, pdfWidth, pdfHeight) ==
    LET pdfX == position.xPercent * pdfWidth
        pdfBoxWidth == position.widthPercent * pdfWidth
        pdfBoxHeight == position.heightPercent * pdfHeight
        pdfY == pdfHeight * PDen - position.yPercent * pdfHeight - pdfBoxHeight
    IN  [x |-> pdfX, y |-> pdfY, width |-> pdfBoxWidth, height |-> pdfBoxHeight]

\* containImageInBox with a seeded fault: the asset is stretched over the box
containImageStretch(imgWidth, imgHeight, boxWidth, boxHeight) ==
    [width |-> boxWidth, height |-> boxHeight,
     offsetX |-> FDiv(FSub(boxWidth, boxWidth), Num(2)),
     offsetY |-> FDiv(FSub(boxHeight, boxHeight), Num(2))]

\* object-fit: contain; the arguments and the results are fractions
containImageInBox(imgWidth, imgHeight, boxWidth, boxHeight) ==
    LET imgRatio == FDiv(imgWidth, imgHeight)
        boxRatio == FDiv(boxWidth, boxHeight)
        wider == FGt(imgRatio, boxRatio)
        fitWidth == IF wider THEN boxWidth ELSE FMul(boxHeight, imgRatio)
        fitHeight == IF wider THEN FDiv(boxWidth, imgRatio) ELSE boxHeight
    IN  [width |-> fitWidth, height |-> fitHeight,
         offsetX |-> FDiv(FSub(boxWidth, fitWidth), Num(2)),
         offsetY |-> FDiv(FSub(boxHeight, fitHeight), Num(2))]

----------------------------------------------------------------------------
(* frontend/src/utils/CoordinateTransformer.js *)

\* pixels to percentages of the container; the arguments and the results are
\* fractions
browserToNormalized(browserX, browserY, browserWidth, browserHeight, containerWidth, containerHeight) ==
    [xPercent |-> FDiv(browserX, containerWidth),
     yPercent |-> FDiv(browserY, containerHeight),
     widthPercent |-> FDiv(browserWidth, containerWidth),
     heightPercent |-> FDiv(browserHeight, containerHeight)]

\* normalizedToBrowser with a seeded fault: every side is scaled by the
\* container width
normalizedToBrowserSquare(normalized, containerWidth, containerHeight) ==
    [x |-> FMul(normalized.xPercent, containerWidth),
     y |-> FMul(normalized.yPercent, containerWidth),
     width |-> FMul(normalized.widthPercent, containerWidth),
     height |-> FMul(normalized.heightPercent, containerWidth)]

\* percentages back to pixels of the current container
normalizedToBrowser(normalized, containerWidth, containerHeight) ==
    [x |-> FMul(normalized.xPercent, containerWidth),
     y |-> FMul(normalized.yPercent, containerHeight),
     width |-> FMul(normalized.widthPercent, containerWidth),
     height |-> FMul(normalized.heightPercent, containerHeight)]

\* 1 is PDen / PDen
clampPosition(position) ==
    [xPercent |-> Max(0, Min(position.xPercent, PDen - position.widthPercent)),
     yPercent |-> Max(0, Min(position.yPercent, PDen - position.heightPercent)),
     widthPercent |-> Min(position.widthPercent, PDen - position.xPercent),
     heightPercent |-> Min(position.heightPercent, PDen - position.yPercent)]

----------------------------------------------------------------------------
(* Values of the backend *)

\* Field.js: fieldType enum
FieldTypes == {"signature", "text", "date", "checkbox", "radio", "image"}
\* Document.js: status enum
Statuses == {"draft", "pending_signature", "signed", "completed"}

\* A field value as the JSON body of POST /api/fields/:id/value carries it:
\* "undefined" no value, "null" null, "png" a PNG data URL, "text" another
\* string, "true" / "false" the booleans.
Values == {"undefined", "null", "png", "text", "true", "false"}
\* Truthy with a seeded fault: every stored value counts as set
AlwaysTruthy(v) == TRUE
\* if (field.value)
Truthy(v) == v \in {"png", "text", "true"}

\* the canvas of the signature pad, whose PNG export is the asset
CanvasWidth == 550
CanvasHeight == 200

\* a missing hash, url or position
Absent == <<>>

\* hashUtils.js: SHA-256 hex digest, taken as collision free
calculateHash(buffer) == <<"sha256", buffer>>

\* A hex string is a sequence of characters; NotAString is a value that is
\* no string.  The digest is 32 bytes in the code and 1 byte here.
HexDigits == {"0", "a", "A"}
NotAString == <<"undefined">>
Nibble(c) == IF c = "0" THEN 0 ELSE 10
\* the buffers hashed by verifyHash: two that differ in one byte
Buffers == {"pdf", "pdg"}
\* digest('hex'): lower-case hex digits
HexDigest(buffer) == IF buffer = "pdf" THEN <<"0", "a">> ELSE <<"a", "0">>

\* Buffer.from(string, 'hex'): one byte for each pair of hex digits, read up
\* to the first pair that is none; a single last character is dropped
RECURSIVE BufferFromHex(_)
BufferFromHex(string) ==
    IF Len(string) < 2 \/ string[1] \notin HexDigits \/ string[2] \notin HexDigits
    THEN <<>>
    ELSE <<16 * Nibble(string[1]) + Nibble(string[2])>>
             \o BufferFromHex(SubSeq(string, 3, Len(string)))

\* hashUtils.js: Buffer.from throws for what is no string and timingSafeEqual
\* throws for buffers of different lengths; both are caught
verifyHash(buffer, expectedHash) ==
    LET currentHash == HexDigest(buffer)
    IN  IF expectedHash = NotAString
        THEN FALSE
        ELSE LET a == BufferFromHex(currentHash)
                 b == BufferFromHex(expectedHash)
             IN  IF Len(a) # Len(b) THEN FALSE ELSE a = b

\* the bytes of a PDF file: what was uploaded, the size of each page, the
\* draw operations added to it, and whether pdf-lib wrote it
PdfBytes(pdf, pages) == [pdf |-> pdf, pages |-> pages, draws |-> <<>>, saved |-> FALSE]

Frac(n) == <<n, PDen>>
FAdd(a, b) == <<a[1] * b[2] + b[1] * a[2], a[2] * b[2]>>
\* Math.min: NaN as soon as one side is NaN
FMin(a, b) == IF IsNaN(a) \/ IsNaN(b) THEN <<0, 0>> ELSE IF FLe(a, b) THEN a ELSE b
Zero == Num(0)

----------------------------------------------------------------------------
(* backend/routes/signPdf.js: the renderers *)

Draw(op, field, x, y, width, height, size, text) ==
    [op |-> op, field |-> field._id, page |-> field.position.pageNumber,
     x |-> x, y |-> y, width |-> width, height |-> height, size |-> size,
     text |-> text]

\* an asset pdf-lib can decode: a string that is a PNG data URL; any other
\* string goes to embedJpg and fails, a boolean has no replace()
Decodable(value) == value = "png"

embedImage(field, coords) ==
    LET fit == containImageInBox(Num(CanvasWidth), Num(CanvasHeight),
                                 Frac(coords.width), Frac(coords.height))
    IN  IF ~Decodable(field.value)
        THEN [ok |-> FALSE, draws |-> <<>>]
        ELSE [ok |-> TRUE,
              draws |-> <<Draw("drawImage", field,
                               FAdd(Frac(coords.x), fit.offsetX),
                               FAdd(Frac(coords.y), fit.offsetY),
                               fit.width, fit.height, Zero, <<>>)>>]

\* text is <<value>> or the formatted date; text || '' is '' for false, and
\* drawText throws for true, which is no string
embedText(field, text, coords) ==
    LET fontSize == FMin(FMul(Frac(coords.height), <<7, 10>>), Num(12))
    IN  IF text = <<"true">>
        THEN [ok |-> FALSE, draws |-> <<>>]
        ELSE [ok |-> TRUE,
              draws |-> <<Draw("drawText", field,
                               FAdd(Frac(coords.x), Num(2)),
                               FAdd(Frac(coords.y),
                                    FDiv(FSub(Frac(coords.height), fontSize), Num(2))),
                               Zero, Zero, fontSize,
                               IF text = <<"false">> THEN <<"">> ELSE text)>>]

embedCheckmark(field, coords) ==
    LET size == FMul(FMin(Frac(coords.width), Frac(coords.height)), <<6, 10>>)
        centerX == FAdd(Frac(coords.x), FDiv(Frac(coords.width), Num(2)))
        centerY == FAdd(Frac(coords.y), FDiv(Frac(coords.height), Num(2)))
    IN  [ok |-> TRUE,
         draws |-> <<Draw("drawText", field,
                          FSub(centerX, FDiv(size, Num(2))),
                          FSub(centerY, FDiv(size, Num(2))),
                          Zero, Zero, size, <<"checkmark">>)>>]

\* embedRadioFill with a seeded fault: the diameter is taken for the radius
embedRadioFillWide(field, coords) ==
    LET radius == FMul(FMin(Frac(coords.width), Frac(coords.height)), <<6, 10>>)
        centerX == FAdd(Frac(coords.x), FDiv(Frac(coords.width), Num(2)))
        centerY == FAdd(Frac(coords.y), FDiv(Frac(coords.height), Num(2)))
    IN  [ok |-> TRUE,
         draws |-> <<Draw("drawCircle", field, centerX, centerY,
                          Zero, Zero, radius, <<>>)>>]

embedRadioFill(field, coords) ==
    LET radius == FMul(FMin(Frac(coords.width), Frac(coords.height)), <<3, 10>>)
        centerX == FAdd(Frac(coords.x), FDiv(Frac(coords.width), Num(2)))
        centerY == FAdd(Frac(coords.y), FDiv(Frac(coords.height), Num(2)))
    IN  [ok |-> TRUE,
         draws |-> <<Draw("drawCircle", field, centerX, centerY,
                          Zero, Zero, radius, <<>>)>>]

\* new Date(value).toLocaleDateString(): always a string
toLocaleDateString(value) == <<"date", value>>

\* no page of the loaded PDF has this number: getPage throws
MissingPage(pdfDoc, field) ==
    field.position.pageNumber \notin 1..Len(pdfDoc.pages)

\* one turn of the loop over the fields: the draws it adds to the page, or
\* ok = FALSE when it throws
EmbedField(pdfDoc, field) ==
    IF MissingPage(pdfDoc, field)
    THEN [ok |-> FALSE, draws |-> <<>>]
    ELSE LET size == pdfDoc.pages[field.position.pageNumber]
             pdfCoords == transformToPdfCoordinates(field.position, size[1], size[2])
         IN  CASE field.fieldType \in {"signature", "image"} ->
                     embedImage(field, pdfCoords)
               [] field.fieldType = "text" ->
                     embedText(field, <<field.value>>, pdfCoords)
               [] field.fieldType = "date" ->
                     embedText(field, toLocaleDateString(field.value), pdfCoords)
               [] field.fieldType = "checkbox" ->
                     IF Truthy(field.value)
                     THEN embedCheckmark(field, pdfCoords)
                     ELSE [ok |-> TRUE, draws |-> <<>>]
               [] field.fieldType = "radio" ->
                     IF Truthy(field.value)
                     THEN embedRadioFill(field, pdfCoords)
                     ELSE [ok |-> TRUE, draws |-> <<>>]
               [] OTHER -> [ok |-> TRUE, draws |-> <<>>]

\* EmbedAll with a seeded fault: a field that throws is skipped and the loop
\* goes on
RECURSIVE EmbedAllSkipFailed(_, _)
EmbedAllSkipFailed(pdfDoc, fs) ==
    IF fs = <<>>
    THEN [ok |-> TRUE, pdfDoc |-> pdfDoc]
    ELSE LET r == EmbedField(pdfDoc, Head(fs))
         IN  EmbedAllSkipFailed([pdfDoc EXCEPT !.draws = pdfDoc.draws \o r.draws],
                                Tail(fs))

\* the loop: the fields in order, stopping at the first that throws
RECURSIVE EmbedAll(_, _)
EmbedAll(pdfDoc, fs) ==
    IF fs = <<>>
    THEN [ok |-> TRUE, pdfDoc |-> pdfDoc]
    ELSE LET r == EmbedField(pdfDoc, Head(fs))
             drawn == [pdfDoc EXCEPT !.draws = pdfDoc.draws \o r.draws]
         IN  IF r.ok THEN EmbedAll(drawn, Tail(fs))
             ELSE [ok |-> FALSE, pdfDoc |-> drawn]

----------------------------------------------------------------------------
(* The collections *)

\* more bounds: documents uploaded, fields created, audit records appended
MaxDocs == 1
MaxFields == 2
MaxLog == 4

DocIds == 1..MaxDocs
FieldIds == 1..MaxFields

\* the page sizes of an uploaded PDF, in points
PageSizes == {<<595, 842>>}

\* the handler that answered and its HTTP status
Response(op, status) == [op |-> op, status |-> status]

\* AuditRecord with a seeded fault: the hash before is not recorded
AuditRecordAfterOnly(documentId, action, hashBefore, hashAfter, fieldId, fieldsProcessed) ==
    [documentId |-> documentId, action |-> action,
     documentHashBefore |-> Absent, documentHashAfter |-> hashAfter,
     details |-> [fieldId |-> fieldId, fieldsProcessed |-> fieldsProcessed]]

AuditRecord(documentId, action, hashBefore, hashAfter, fieldId, fieldsProcessed) ==
    [documentId |-> documentId, action |-> action,
     documentHashBefore |-> hashBefore, documentHashAfter |-> hashAfter,
     details |-> [fieldId |-> fieldId, fieldsProcessed |-> fieldsProcessed]]

\* Model.findById
DocExists(documentId) == documentId \in 1..Len(documents)
FieldIndex(id) == {i \in 1..Len(fields) : fields[i]._id = id}
\* Find with a seeded fault: the filter on the value is dropped
FindAnyValue(fs, documentId, valued) ==
    SelectSeq(fs, LAMBDA f : f.documentId = documentId)

\* Find with a seeded fault: the filter is { $exists: true } only, so a null
\* value matches
FindDefined(fs, documentId, valued) ==
    SelectSeq(fs, LAMBDA f : f.documentId = documentId
                             /\ (valued => f.value # "undefined"))

\* Field.find(filter): the matching records in insertion order; valued is the
\* filter value: { $exists: true, $ne: null }
RECURSIVE Find(_, _, _)
Find(fs, documentId, valued) ==
    IF fs = <<>> THEN <<>>
    ELSE LET f == Head(fs)
             match == f.documentId = documentId
                      /\ (valued => f.value \notin {"undefined", "null"})
         IN  (IF match THEN <<f>> ELSE <<>>) \o Find(Tail(fs), documentId, valued)

\* OutOfRange with a seeded fault: only the upper end is checked
OutOfRangeAbove(position) ==
    \E v \in {position.xPercent, position.yPercent,
              position.widthPercent, position.heightPercent} : v > PDen

\* some percentage is below 0 or above 1
OutOfRange(position) ==
    \E v \in {position.xPercent, position.yPercent,
              position.widthPercent, position.heightPercent} : v < 0 \/ v > PDen

BackendInit ==
    /\ documents = <<>>
    /\ fields = <<>>
    /\ auditLogs = <<>>
    /\ uploads = <<>>
    /\ signed = <<>>
    /\ nextFieldId = 1
    /\ res = Response("none", 0)

----------------------------------------------------------------------------
(* backend/routes/documents.js *)

\* POST /api/documents/upload; file is "none" or the name of a PDF
UploadDocument(file, pages) ==
    /\ UNCHANGED <<fields, signed, nextFieldId, calc>>
    /\ IF file = "none"
       THEN /\ res' = Response("upload", 400)
            /\ UNCHANGED <<documents, auditLogs, uploads>>
       ELSE /\ Len(documents) < MaxDocs
            /\ Len(auditLogs) < MaxLog
            /\ LET pdfBuffer == PdfBytes(file, pages)
                   originalHash == calculateHash(pdfBuffer)
                   id == Len(documents) + 1
               IN  /\ uploads' = Append(uploads, pdfBuffer)
                   /\ documents' = Append(documents,
                          [originalFileUrl |-> Len(uploads) + 1,
                           originalHash |-> originalHash,
                           pdfMetadata |-> [pageCount |-> Len(pages), pages |-> pages],
                           signedFileUrl |-> Absent,
                           signedHash |-> Absent,
                           status |-> "draft"])
                   /\ auditLogs' = Append(auditLogs,
                          AuditRecord(id, "uploaded", Absent, originalHash, 0, 0))
                   /\ res' = Response("upload", 201)

----------------------------------------------------------------------------
(* backend/routes/fields.js *)

\* POST /api/fields; label and required are "undefined" when not sent
CreateField(documentId, fieldType, label, position, required) ==
    /\ UNCHANGED <<uploads, signed, calc>>
    /\ IF ~DocExists(documentId)
       THEN /\ res' = Response("createField", 404)
            /\ UNCHANGED <<documents, fields, auditLogs, nextFieldId>>
       ELSE IF OutOfRange(position)
       THEN /\ res' = Response("createField", 400)
            /\ UNCHANGED <<documents, fields, auditLogs, nextFieldId>>
       ELSE IF fieldType \notin FieldTypes
       THEN \* Field.create rejects the record: caught
            /\ res' = Response("createField", 500)
            /\ UNCHANGED <<documents, fields, auditLogs, nextFieldId>>
       ELSE /\ nextFieldId <= MaxFields
            /\ Len(auditLogs) < MaxLog
            /\ fields' = Append(fields,
                   [_id |-> nextFieldId,
                    documentId |-> documentId,
                    fieldType |-> fieldType,
                    label |-> IF label = "undefined" THEN fieldType ELSE label,
                    position |-> position,
                    value |-> "undefined",
                    required |-> (required # "false")])
            /\ nextFieldId' = nextFieldId + 1
            /\ documents' = [documents EXCEPT ![documentId].status = "pending_signature"]
            /\ auditLogs' = Append(auditLogs,
                   AuditRecord(documentId, "field_added", Absent, Absent, nextFieldId, 0))
            /\ res' = Response("createField", 201)

\* PUT /api/fields/:id; position is Absent or <<position>>
UpdateField(id, position, label, required) ==
    /\ UNCHANGED <<documents, uploads, signed, nextFieldId, calc>>
    /\ IF FieldIndex(id) = {}
       THEN /\ res' = Response("updateField", 404)
            /\ UNCHANGED <<fields, auditLogs>>
       ELSE IF position # Absent /\ OutOfRange(position[1])
       THEN /\ res' = Response("updateField", 400)
            /\ UNCHANGED <<fields, auditLogs>>
       ELSE /\ Len(auditLogs) < MaxLog
            /\ LET i == CHOOSE i \in FieldIndex(id) : TRUE
                   field == fields[i]
               IN  /\ fields' = [fields EXCEPT ![i] =
                          [field EXCEPT
                             !.position = IF position # Absent THEN position[1] ELSE @,
                             !.label = IF label # "undefined" THEN label ELSE @,
                             !.required = IF required # "undefined"
                                          THEN required = "true" ELSE @]]
                   /\ auditLogs' = Append(auditLogs,
                          AuditRecord(field.documentId, "field_modified",
                                      Absent, Absent, id, 0))
                   /\ res' = Response("updateField", 200)

\* the sequence without its i-th element
RemoveAt(s, i) == SubSeq(s, 1, i - 1) \o SubSeq(s, i + 1, Len(s))

\* DeleteField with a seeded fault: the audit records of the deleted field go
\* with it
DeleteFieldAndHistory(id) ==
    /\ UNCHANGED <<documents, uploads, signed, nextFieldId, calc>>
    /\ IF FieldIndex(id) = {}
       THEN /\ res' = Response("deleteField", 404)
            /\ UNCHANGED <<fields, auditLogs>>
       ELSE /\ Len(auditLogs) < MaxLog
            /\ LET i == CHOOSE i \in FieldIndex(id) : TRUE
               IN  /\ fields' = RemoveAt(fields, i)
                   /\ auditLogs' = Append(
                          SelectSeq(auditLogs, LAMBDA rec : rec.details.fieldId # id),
                          AuditRecord(fields[i].documentId, "field_deleted",
                                      Absent, Absent, id, 0))
                   /\ res' = Response("deleteField", 200)

\* DELETE /api/fields/:id
DeleteField(id) ==
    /\ UNCHANGED <<documents, uploads, signed, nextFieldId, calc>>
    /\ IF FieldIndex(id) = {}
       THEN /\ res' = Response("deleteField", 404)
            /\ UNCHANGED <<fields, auditLogs>>
       ELSE /\ Len(auditLogs) < MaxLog
            /\ LET i == CHOOSE i \in FieldIndex(id) : TRUE
               IN  /\ fields' = RemoveAt(fields, i)
                   /\ auditLogs' = Append(auditLogs,
                          AuditRecord(fields[i].documentId, "field_deleted",
                                      Absent, Absent, id, 0))
                   /\ res' = Response("deleteField", 200)

\* POST /api/fields/:id/value
SetFieldValue(id, value) ==
    /\ UNCHANGED <<documents, auditLogs, uploads, signed, nextFieldId, calc>>
    /\ IF FieldIndex(id) = {}
       THEN /\ res' = Response("setFieldValue", 404)
            /\ UNCHANGED fields
       ELSE LET i == CHOOSE i \in FieldIndex(id) : TRUE
            IN  /\ fields' = [fields EXCEPT ![i].value = value]
                /\ res' = Response("setFieldValue", 200)

----------------------------------------------------------------------------
(* backend/routes/signPdf.js: POST /api/sign-pdf *)

SignPdf(documentId) ==
    /\ UNCHANGED <<fields, uploads, nextFieldId, calc>>
    /\ IF ~DocExists(documentId)
       THEN /\ res' = Response("sign", 404)
            /\ UNCHANGED <<documents, auditLogs, signed>>
       ELSE LET document == documents[documentId]
                \* fields with a value: { $exists: true, $ne: null }
                fs == Find(fields, documentId, TRUE)
                pdfBuffer == uploads[document.originalFileUrl]
                hashBefore == calculateHash(pdfBuffer)
                \* PDFDocument.load, then the loop over the fields
                r == EmbedAll(pdfBuffer, fs)
                \* pdfDoc.save()
                signedBuffer == [r.pdfDoc EXCEPT !.saved = TRUE]
                hashAfter == calculateHash(signedBuffer)
            IN  IF fs = <<>>
                THEN /\ res' = Response("sign", 400)
                     /\ UNCHANGED <<documents, auditLogs, signed>>
                ELSE IF ~r.ok
                THEN \* a renderer threw: caught, nothing was written
                     /\ res' = Response("sign", 500)
                     /\ UNCHANGED <<documents, auditLogs, signed>>
                ELSE /\ Len(auditLogs) < MaxLog
                     /\ signed' = Append(signed, signedBuffer)
                     /\ documents' = [documents EXCEPT ![documentId] =
                            [document EXCEPT !.signedFileUrl = <<Len(signed) + 1>>,
                                             !.signedHash = hashAfter,
                                             !.status = "signed"]]
                     /\ auditLogs' = Append(auditLogs,
                            AuditRecord(documentId, "signed", hashBefore, hashAfter,
                                        0, Len(fs)))
                     /\ res' = Response("sign", 200)

----------------------------------------------------------------------------
(* The backend: any request at any time *)

\* the requests sent: PDFs uploaded, positions, labels and flags of a field
UploadFiles == {"none", "contract.pdf"}
PageLists == {<<size>> : size \in PageSizes}
Geometries ==
    {[xPercent |-> 1, yPercent |-> 8, widthPercent |-> 3, heightPercent |-> 1],
     [xPercent |-> 1, yPercent |-> 8, widthPercent |-> PDen + 1, heightPercent |-> 1]}
PageNumbers == 1..2
RequestPositions ==
    {[pageNumber |-> n, xPercent |-> g.xPercent, yPercent |-> g.yPercent,
      widthPercent |-> g.widthPercent, heightPercent |-> g.heightPercent] :
        n \in PageNumbers, g \in Geometries}
\* one type of each renderer family, and one outside the enum
RequestTypes == {"signature", "text", "checkbox", "stamp"}
RequestLabels == {"undefined"}
RequestFlags == {"undefined"}

NoCalc == [fn |-> "none"]

Init == BackendInit /\ calc = NoCalc

Next ==
    \/ \E file \in UploadFiles, pages \in PageLists : UploadDocument(file, pages)
    \/ \E d \in DocIds, t \in RequestTypes, l \in RequestLabels,
          p \in RequestPositions, r \in RequestFlags : CreateField(d, t, l, p, r)
    \/ \E id \in FieldIds, p \in {Absent} \cup {<<q>> : q \in RequestPositions},
          l \in RequestLabels, r \in RequestFlags : UpdateField(id, p, l, r)
    \/ \E id \in FieldIds : DeleteField(id)
    \/ \E id \in FieldIds, v \in Values : SetFieldValue(id, v)
    \/ \E d \in DocIds : SignPdf(d)

Spec == Init /\ [][Next]_vars

----------------------------------------------------------------------------
(* The pure functions, each applied to every input of a grid *)

Percents == 0..PDen
NormalizedPositions ==
    [xPercent : Percents, yPercent : Percents,
     widthPercent : Percents, heightPercent : Percents]
PageWidths == {595}
PageHeights == {800, 842}
ZeroRect == [x |-> 0, y |-> 0, width |-> 0, height |-> 0]

InitTransform ==
    /\ BackendInit
    /\ calc \in [fn : {"transform"}, position : NormalizedPositions,
                 pdfWidth : PageWidths, pdfHeight : PageHeights,
                 done : {FALSE}, rect : {ZeroRect}]

TransformStep ==
    /\ calc.fn = "transform" /\ ~calc.done
    /\ calc' = [calc EXCEPT !.done = TRUE,
                            !.rect = transformToPdfCoordinates(
                                         calc.position, calc.pdfWidth, calc.pdfHeight)]
    /\ UNCHANGED backendVars

NextTransform == TransformStep

SpecTransform == InitTransform /\ [][NextTransform]_vars

Dims == 0..MaxDim
ZeroFit == [width |-> Zero, height |-> Zero, offsetX |-> Zero, offsetY |-> Zero]

InitFit ==
    /\ BackendInit
    /\ calc \in [fn : {"fit"}, imgWidth : Dims, imgHeight : Dims,
                 boxWidth : Dims, boxHeight : Dims, done : {FALSE}, fit : {ZeroFit}]

FitStep ==
    /\ calc.fn = "fit" /\ ~calc.done
    /\ calc' = [calc EXCEPT !.done = TRUE,
                            !.fit = containImageInBox(
                                        Num(calc.imgWidth), Num(calc.imgHeight),
                                        Num(calc.boxWidth), Num(calc.boxHeight))]
    /\ UNCHANGED backendVars

NextFit == FitStep

SpecFit == InitFit /\ [][NextFit]_vars

ClampPercents == (0 - Over)..(PDen + Over)
ClampInputs ==
    [xPercent : ClampPercents, yPercent : ClampPercents,
     widthPercent : ClampPercents, heightPercent : ClampPercents]
ZeroPosition == [xPercent |-> 0, yPercent |-> 0, widthPercent |-> 0, heightPercent |-> 0]

\* p is the input, q = clampPosition(p) after one step, r = clampPosition(q)
\* after two
InitClamp ==
    /\ BackendInit
    /\ calc \in [fn : {"clamp"}, p : ClampInputs, step : {0},
                 q : {ZeroPosition}, r : {ZeroPosition}]

ClampOnce ==
    /\ calc.fn = "clamp" /\ calc.step = 0
    /\ calc' = [calc EXCEPT !.step = 1, !.q = clampPosition(calc.p)]
    /\ UNCHANGED backendVars

ClampTwice ==
    /\ calc.fn = "clamp" /\ calc.step = 1
    /\ calc' = [calc EXCEPT !.step = 2, !.r = clampPosition(calc.q)]
    /\ UNCHANGED backendVars

NextClamp == ClampOnce \/ ClampTwice

SpecClamp == InitClamp /\ [][NextClamp]_vars

----------------------------------------------------------------------------
(* The backend with mark fields only: checkboxes and radio buttons *)

MarkTypes == {"checkbox", "radio"}
MarkPositions ==
    {[pageNumber |-> 1, xPercent |-> 1, yPercent |-> 8,
      widthPercent |-> 3, heightPercent |-> 1]}

NextMarks ==
    \/ \E pages \in PageLists : UploadDocument("contract.pdf", pages)
    \/ \E d \in DocIds, t \in MarkTypes, p \in MarkPositions :
           CreateField(d, t, "undefined", p, "undefined")
    \/ \E id \in FieldIds, v \in Values : SetFieldValue(id, v)
    \/ \E id \in FieldIds : DeleteField(id)
    \/ \E d \in DocIds : SignPdf(d)

SpecMarks == Init /\ [][NextMarks]_vars

----------------------------------------------------------------------------
(* Placing an image: the target rectangle of a position on a page, then the
   asset fitted into it, as the signature case of sign-pdf does *)

\* width and height of the decoded asset, in pixels
AssetSizes == {<<300, 100>>, <<550, 200>>}

InitPlace ==
    /\ BackendInit
    /\ calc \in [fn : {"place"}, position : NormalizedPositions,
                 pdfWidth : {595}, pdfHeight : {842}, asset : AssetSizes,
                 step : {0}, rect : {ZeroRect}, fit : {ZeroFit}]

PlaceTransform ==
    /\ calc.fn = "place" /\ calc.step = 0
    /\ calc' = [calc EXCEPT !.step = 1,
                            !.rect = transformToPdfCoordinates(
                                         calc.position, calc.pdfWidth, calc.pdfHeight)]
    /\ UNCHANGED backendVars

PlaceFit ==
    /\ calc.fn = "place" /\ calc.step = 1
    /\ calc' = [calc EXCEPT !.step = 2,
                            !.fit = containImageInBox(
                                        Num(calc.asset[1]), Num(calc.asset[2]),
                                        Frac(calc.rect.width), Frac(calc.rect.height))]
    /\ UNCHANGED backendVars

NextPlace == PlaceTransform \/ PlaceFit

SpecPlace == InitPlace /\ [][NextPlace]_vars

----------------------------------------------------------------------------
(* A pixel rectangle to percentages and back *)

\* largest pixel coordinate or size, and largest container side
MaxPx == 3
MaxContainer == 2

\* a drag may leave the container on the left or at the top
Pixels == (0 - 1)..MaxPx
ContainerSides == 0..MaxContainer
ZeroNormalized ==
    [xPercent |-> Zero, yPercent |-> Zero, widthPercent |-> Zero, heightPercent |-> Zero]
ZeroBrowser == [x |-> Zero, y |-> Zero, width |-> Zero, height |-> Zero]

InitRoundTrip ==
    /\ BackendInit
    /\ calc \in [fn : {"roundTrip"},
                 browserX : Pixels, browserY : Pixels,
                 browserWidth : Pixels, browserHeight : Pixels,
                 containerWidth : ContainerSides, containerHeight : ContainerSides,
                 step : {0}, normalized : {ZeroNormalized}, browser : {ZeroBrowser}]

ToNormalized ==
    /\ calc.fn = "roundTrip" /\ calc.step = 0
    /\ calc' = [calc EXCEPT
                   !.step = 1,
                   !.normalized = browserToNormalized(
                       Num(calc.browserX), Num(calc.browserY),
                       Num(calc.browserWidth), Num(calc.browserHeight),
                       Num(calc.containerWidth), Num(calc.containerHeight))]
    /\ UNCHANGED backendVars

ToBrowser ==
    /\ calc.fn = "roundTrip" /\ calc.step = 1
    /\ calc' = [calc EXCEPT
                   !.step = 2,
                   !.browser = normalizedToBrowser(
                       calc.normalized,
                       Num(calc.containerWidth), Num(calc.containerHeight))]
    /\ UNCHANGED backendVars

NextRoundTrip == ToNormalized \/ ToBrowser

SpecRoundTrip == InitRoundTrip /\ [][NextRoundTrip]_vars

----------------------------------------------------------------------------
(* The backend with field requests only: positions inside the page, reaching
   over its right or bottom edge, and with one percentage outside [0, 1];
   labels and required flags sent or not *)

FieldGeometries ==
    {[xPercent |-> 1, yPercent |-> 8, widthPercent |-> 3, heightPercent |-> 1],
     [xPercent |-> 8, yPercent |-> 8, widthPercent |-> 3, heightPercent |-> 1],
     [xPercent |-> 1, yPercent |-> 8, widthPercent |-> 3, heightPercent |-> 3],
     [xPercent |-> 0 - 1, yPercent |-> 8, widthPercent |-> 3, heightPercent |-> 1],
     [xPercent |-> 1, yPercent |-> PDen + 1, widthPercent |-> 3, heightPercent |-> 1],
     [xPercent |-> 1, yPercent |-> 8, widthPercent |-> PDen + 1, heightPercent |-> 1],
     [xPercent |-> 1, yPercent |-> 8, widthPercent |-> 3, heightPercent |-> 0 - 1]}
FieldPositions ==
    {[pageNumber |-> 1, xPercent |-> g.xPercent, yPercent |-> g.yPercent,
      widthPercent |-> g.widthPercent, heightPercent |-> g.heightPercent] :
        g \in FieldGeometries}
FieldLabels == {"undefined", "Sign here"}
FieldFlags == {"undefined", "false"}

NextFields ==
    \/ \E pages \in PageLists : UploadDocument("contract.pdf", pages)
    \/ \E d \in DocIds, l \in FieldLabels, p \in FieldPositions, r \in FieldFlags :
           CreateField(d, "signature", l, p, r)
    \/ \E id \in FieldIds, p \in {Absent} \cup {<<q>> : q \in FieldPositions},
          l \in FieldLabels, r \in FieldFlags : UpdateField(id, p, l, r)

SpecFields == Init /\ [][NextFields]_vars

----------------------------------------------------------------------------
(* The backend with the stored original replaced from outside *)

\* the file under uploads/ of a document is overwritten by another PDF
TamperOriginal(documentId) ==
    /\ DocExists(documentId)
    /\ LET url == documents[documentId].originalFileUrl
       IN  /\ uploads[url].pdf # "replaced.pdf"
           /\ uploads' = [uploads EXCEPT ![url].pdf = "replaced.pdf"]
    /\ UNCHANGED <<documents, fields, auditLogs, signed, nextFieldId, res, calc>>

NextTamper ==
    \/ \E pages \in PageLists : UploadDocument("contract.pdf", pages)
    \/ \E d \in DocIds, t \in {"signature", "text"}, p \in MarkPositions :
           CreateField(d, t, "undefined", p, "undefined")
    \/ \E id \in FieldIds, v \in {"png", "text"} : SetFieldValue(id, v)
    \/ \E id \in FieldIds : DeleteField(id)
    \/ \E d \in DocIds : TamperOriginal(d)
    \/ \E d \in DocIds : SignPdf(d)

SpecTamper == Init /\ [][NextTamper]_vars

----------------------------------------------------------------------------
(* verifyHash applied to a buffer and an expected hash *)

\* longest expected hash, in characters
MaxHex == 3

HexStrings(n) == UNION {[1..k -> HexDigits \cup {"z"}] : k \in 0..n}
ExpectedHashes == HexStrings(MaxHex) \cup {NotAString}

InitVerify ==
    /\ BackendInit
    /\ calc \in [fn : {"verify"}, buffer : Buffers, expectedHash : ExpectedHashes,
                 done : {FALSE}, result : {FALSE}]

VerifyStep ==
    /\ calc.fn = "verify" /\ ~calc.done
    /\ calc' = [calc EXCEPT !.done = TRUE,
                            !.result = verifyHash(calc.buffer, calc.expectedHash)]
    /\ UNCHANGED backendVars

NextVerify == VerifyStep

SpecVerify == InitVerify /\ [][NextVerify]_vars

----------------------------------------------------------------------------
(* The backend with the audit trail read: every operation that writes, and
   GET /api/documents/:id/audit *)

\* GET /api/documents/:id/audit: the records of the document are read and
\* sent, newest first; an unknown id gives an empty list
GetAudit(documentId) ==
    /\ res' = Response("getAudit", 200)
    /\ UNCHANGED <<documents, fields, auditLogs, uploads, signed, nextFieldId, calc>>

NextAudit ==
    \/ \E file \in UploadFiles, pages \in PageLists : UploadDocument(file, pages)
    \/ \E d \in DocIds, p \in MarkPositions :
           CreateField(d, "text", "undefined", p, "undefined")
    \/ \E id \in FieldIds, p \in {Absent} \cup {<<q>> : q \in MarkPositions} :
           UpdateField(id, p, "undefined", "false")
    \/ \E id \in FieldIds : DeleteField(id)
    \/ \E id \in FieldIds, v \in {"text", "null"} : SetFieldValue(id, v)
    \/ \E d \in DocIds : SignPdf(d)
    \/ \E d \in DocIds : GetAudit(d)

SpecAudit == Init /\ [][NextAudit]_vars

----------------------------------------------------------------------------
(* frontend/src/components/PDFViewer/FieldOverlay.jsx: one field overlay on
   a page container, dragged and resized with the mouse.  calc holds the
   component: the field's position (props), the container, the state hooks
   isDragging, isResizing and dragStart, and the position last given to
   onUpdate. *)

\* gestures (mouse button presses) on the overlay
MaxGestures == 2

RECURSIVE GCD(_, _)
GCD(a, b) == IF b = 0 THEN a ELSE GCD(b, a % b)
Abs(n) == IF n < 0 THEN 0 - n ELSE n
\* the same number in lowest terms: two results that are equal as numbers
\* are one value of the state
Reduce(a) ==
    LET g == GCD(Abs(a[1]), a[2])
    IN  IF g = 0 THEN a ELSE <<a[1] \div g, a[2] \div g>>
\* Math.max
FMax(a, b) == IF IsNaN(a) \/ IsNaN(b) THEN <<0, 0>> ELSE IF FLe(a, b) THEN b ELSE a
ReduceAll(r) == [k \in DOMAIN r |-> Reduce(r[k])]

\* width and height of the page container, in pixels
OverlayContainers == {<<100, 100>>}
\* clientX and clientY of the mouse events, relative to the container
MouseCoordinates == {0 - 40, 60, 140}
\* the four resize handles; no handle is <<>>
Corners == {<<"s", "e">>, <<"s", "w">>, <<"n", "e">>, <<"n", "w">>}
includes(corner, c) == \E i \in DOMAIN corner : corner[i] = c
\* positions of the field when the page is shown: inside the page
OverlayPositions ==
    {[xPercent |-> <<1, 5>>, yPercent |-> <<1, 5>>,
      widthPercent |-> <<2, 5>>, heightPercent |-> <<2, 5>>]}
NoDragStart ==
    [x |-> Zero, y |-> Zero, initialWidth |-> Zero, initialHeight |-> Zero,
     initialX |-> Zero, initialY |-> Zero]

InitOverlay ==
    /\ BackendInit
    /\ calc \in [fn : {"overlay"}, position : OverlayPositions,
                 containerDimensions : OverlayContainers,
                 isDragging : {FALSE}, isResizing : {<<>>},
                 dragStart : {NoDragStart}, emitted : {<<>>}, gestures : {0}]

\* line 25: the position of the field in pixels of the container
browserCoords ==
    ReduceAll(normalizedToBrowser(calc.position,
                                  Num(calc.containerDimensions[1]),
                                  Num(calc.containerDimensions[2])))

handleMouseDown(clientX, clientY) ==
    /\ calc.fn = "overlay"
    /\ ~calc.isDragging /\ calc.isResizing = <<>>
    /\ calc.gestures < MaxGestures
    /\ calc' = [calc EXCEPT
                   !.gestures = @ + 1,
                   !.isDragging = TRUE,
                   !.dragStart = [NoDragStart EXCEPT
                       !.x = Reduce(FSub(Num(clientX), browserCoords.x)),
                       !.y = Reduce(FSub(Num(clientY), browserCoords.y))]]
    /\ UNCHANGED backendVars

handleResizeStart(clientX, clientY, corner) ==
    /\ calc.fn = "overlay"
    /\ ~calc.isDragging /\ calc.isResizing = <<>>
    /\ calc.gestures < MaxGestures
    /\ calc' = [calc EXCEPT
                   !.gestures = @ + 1,
                   !.isResizing = corner,
                   !.dragStart = [x |-> Num(clientX), y |-> Num(clientY),
                                  initialWidth |-> browserCoords.width,
                                  initialHeight |-> browserCoords.height,
                                  initialX |-> browserCoords.x,
                                  initialY |-> browserCoords.y]]
    /\ UNCHANGED backendVars

\* onUpdate({ position: { ...field.position, ...normalized } }); the editor
\* puts the update into the field at once
onUpdate(normalized) ==
    calc' = [calc EXCEPT !.position = ReduceAll(normalized),
                         !.emitted = <<ReduceAll(normalized)>>]

handleMouseMove(clientX, clientY) ==
    /\ calc.fn = "overlay"
    /\ calc.isDragging \/ calc.isResizing # <<>>
    /\ LET W == Num(calc.containerDimensions[1])
           H == Num(calc.containerDimensions[2])
           dragStart == calc.dragStart
           isResizing == calc.isResizing
       IN  IF calc.isDragging
           THEN LET newX == FMax(Zero, FMin(FSub(Num(clientX), dragStart.x),
                                            FSub(W, browserCoords.width)))
                    newY == FMax(Zero, FMin(FSub(Num(clientY), dragStart.y),
                                            FSub(H, browserCoords.height)))
                IN  onUpdate(browserToNormalized(newX, newY, browserCoords.width,
                                                 browserCoords.height, W, H))
           ELSE LET deltaX == FSub(Num(clientX), dragStart.x)
                    deltaY == FSub(Num(clientY), dragStart.y)
                    newWidth ==
                        IF includes(isResizing, "w")
                        THEN FMax(Num(30), FSub(dragStart.initialWidth, deltaX))
                        ELSE IF includes(isResizing, "e")
                        THEN FMax(Num(30), FAdd(dragStart.initialWidth, deltaX))
                        ELSE dragStart.initialWidth
                    newX ==
                        IF includes(isResizing, "w")
                        THEN FAdd(dragStart.initialX,
                                  FSub(dragStart.initialWidth, newWidth))
                        ELSE dragStart.initialX
                    newHeight ==
                        IF includes(isResizing, "n")
                        THEN FMax(Num(20), FSub(dragStart.initialHeight, deltaY))
                        ELSE IF includes(isResizing, "s")
                        THEN FMax(Num(20), FAdd(dragStart.initialHeight, deltaY))
                        ELSE dragStart.initialHeight
                    newY ==
                        IF includes(isResizing, "n")
                        THEN FAdd(dragStart.initialY,
                                  FSub(dragStart.initialHeight, newHeight))
                        ELSE dragStart.initialY
                IN  onUpdate(browserToNormalized(
                                 newX, newY,
                                 FMin(newWidth, FSub(W, newX)),
                                 FMin(newHeight, FSub(H, newY)), W, H))
    /\ UNCHANGED backendVars

handleMouseUp ==
    /\ calc.fn = "overlay"
    /\ calc.isDragging \/ calc.isResizing # <<>>
    /\ calc' = [calc EXCEPT !.isDragging = FALSE, !.isResizing = <<>>]
    /\ UNCHANGED backendVars

NextOverlay ==
    \/ \E x \in MouseCoordinates, y \in MouseCoordinates : handleMouseDown(x, y)
    \/ \E x \in MouseCoordinates, y \in MouseCoordinates, c \in Corners :
           handleResizeStart(x, y, c)
    \/ \E x \in MouseCoordinates, y \in MouseCoordinates : handleMouseMove(x, y)
    \/ handleMouseUp

SpecOverlay == InitOverlay /\ [][NextOverlay]_vars

----------------------------------------------------------------------------
(* Drag from the toolbar (FieldToolbar.jsx, useDrag) and drop on the page
   (PDFViewer.jsx, useDrop).  calc holds the drag in progress and the
   field-add the drop handler gave to onFieldAdd. *)

\* FieldToolbar.jsx: the types of the boxes of the toolbar
ToolbarTypes == {"signature", "upload", "initials", "stamp", "text", "number", "date"}
\* useDrag: the type of the drag source and the item it carries
DragSourceType == "field"
DragItem(type) == [type |-> type, label |-> type]
\* useDrop: the types the page accepts
DropAccept == {"FIELD"}
\* item.name, undefined when the item has no such property
Property(item, name) == IF name \in DOMAIN item THEN item[name] ELSE "undefined"

\* CoordinateTransformer.js: DEFAULT_FIELD_SIZES, in hundredths
DEFAULT_FIELD_SIZES ==
    [signature |-> [widthPercent |-> <<25, 100>>, heightPercent |-> <<8, 100>>],
     text |-> [widthPercent |-> <<20, 100>>, heightPercent |-> <<4, 100>>],
     date |-> [widthPercent |-> <<15, 100>>, heightPercent |-> <<4, 100>>],
     checkbox |-> [widthPercent |-> <<3, 100>>, heightPercent |-> <<3, 100>>],
     radio |-> [widthPercent |-> <<3, 100>>, heightPercent |-> <<3, 100>>],
     image |-> [widthPercent |-> <<20, 100>>, heightPercent |-> <<15, 100>>]]

\* where the cursor is at the drop, relative to the page
DropCoordinates == {0, 1, 50, 100}

\* PDFViewer.jsx, the drop handler: what it gives to onFieldAdd
drop(item, dropX, dropY, pageRect, pageNumber) ==
    LET fieldType == Property(item, "fieldType")
        defaultSize == IF fieldType \in DOMAIN DEFAULT_FIELD_SIZES
                       THEN DEFAULT_FIELD_SIZES[fieldType]
                       ELSE DEFAULT_FIELD_SIZES.text
        W == Num(pageRect[1])
        H == Num(pageRect[2])
        fieldWidth == FMul(defaultSize.widthPercent, W)
        fieldHeight == FMul(defaultSize.heightPercent, H)
        adjustedX == FSub(Num(dropX), FDiv(fieldWidth, Num(2)))
        adjustedY == FSub(Num(dropY), FDiv(fieldHeight, Num(2)))
        normalized == browserToNormalized(adjustedX, adjustedY,
                                          fieldWidth, fieldHeight, W, H)
    IN  [fieldType |-> fieldType,
         position |-> ReduceAll(
             [pageNumber |-> Num(pageNumber),
              xPercent |-> FMax(Zero, FMin(normalized.xPercent,
                                           FSub(Num(1), normalized.widthPercent))),
              yPercent |-> FMax(Zero, FMin(normalized.yPercent,
                                           FSub(Num(1), normalized.heightPercent))),
              widthPercent |-> normalized.widthPercent,
              heightPercent |-> normalized.heightPercent])]

InitDrop ==
    /\ BackendInit
    /\ calc \in [fn : {"dnd"}, phase : {"idle"}, dragType : {""}, item : {DragItem("")},
                 pageRect : OverlayContainers, dropX : {0}, dropY : {0},
                 fieldAdd : {<<>>}]

\* a box of the toolbar is picked up
DragStart(type) ==
    /\ calc.fn = "dnd" /\ calc.phase = "idle"
    /\ calc' = [calc EXCEPT !.phase = "dragging", !.dragType = DragSourceType,
                            !.item = DragItem(type)]
    /\ UNCHANGED backendVars

\* it is released over the page: react-dnd calls the drop handler of a
\* target that accepts the type of the source, and of no other
DropOnPage(dropX, dropY) ==
    /\ calc.fn = "dnd" /\ calc.phase = "dragging"
    /\ calc' = [calc EXCEPT
                   !.phase = "dropped", !.dropX = dropX, !.dropY = dropY,
                   !.fieldAdd = IF calc.dragType \in DropAccept
                                THEN <<drop(calc.item, dropX, dropY, calc.pageRect, 1)>>
                                ELSE <<>>]
    /\ UNCHANGED backendVars

NextDrop ==
    \/ \E t \in ToolbarTypes : DragStart(t)
    \/ \E x \in DropCoordinates, y \in DropCoordinates : DropOnPage(x, y)

SpecDrop == InitDrop /\ [][NextDrop]_vars

----------------------------------------------------------------------------
(* POST /api/sign-pdf step by step.  The handler is an async function: it
   gives way at each await, so the requests in progress interleave with
   each other and with the other handlers, and each call of the storage
   (file system, database) may throw.  calc holds the requests in progress:
   where each stands and the locals it has computed. *)

\* signing requests in progress at the same time
MaxRequests == 2

Requests == 1..MaxRequests
IdleRequest ==
    [pc |-> "idle", documentId |-> 0, fields |-> <<>>,
     hashBefore |-> Absent, signedBuffer |-> Absent, hashAfter |-> Absent,
     signedFileUrl |-> Absent]

InitSteps ==
    /\ BackendInit
    /\ calc = [fn |-> "requests", req |-> [r \in Requests |-> IdleRequest]]

\* the request with its local state changed
Continue(r, request) ==
    calc' = [calc EXCEPT !.req[r] = request]

\* lines 199-203: Document.findById
SignFindDocument(r, documentId) ==
    /\ calc.fn = "requests" /\ calc.req[r].pc = "idle"
    /\ IF ~DocExists(documentId)
       THEN /\ Continue(r, [calc.req[r] EXCEPT !.pc = "failed"])
            /\ res' = Response("sign", 404)
       ELSE /\ Continue(r, [calc.req[r] EXCEPT !.pc = "findFields",
                                               !.documentId = documentId])
            /\ UNCHANGED res
    /\ UNCHANGED <<documents, fields, auditLogs, uploads, signed, nextFieldId>>

\* lines 205-209: Field.find
SignFindFields(r) ==
    /\ calc.fn = "requests" /\ calc.req[r].pc = "findFields"
    /\ LET fs == Find(fields, calc.req[r].documentId, TRUE)
       IN  IF fs = <<>>
           THEN /\ Continue(r, [calc.req[r] EXCEPT !.pc = "failed"])
                /\ res' = Response("sign", 400)
           ELSE /\ Continue(r, [calc.req[r] EXCEPT !.pc = "embed", !.fields = fs])
                /\ UNCHANGED res
    /\ UNCHANGED <<documents, fields, auditLogs, uploads, signed, nextFieldId>>

\* lines 211-263: read the original, hash it, load it, the loop over the
\* fields, pdfDoc.save() and the hash of the result
SignEmbed(r) ==
    /\ calc.fn = "requests" /\ calc.req[r].pc = "embed"
    /\ LET request == calc.req[r]
           pdfBuffer == uploads[documents[request.documentId].originalFileUrl]
           e == EmbedAll(pdfBuffer, request.fields)
           signedBuffer == [e.pdfDoc EXCEPT !.saved = TRUE]
       IN  IF ~e.ok
           THEN /\ Continue(r, [request EXCEPT !.pc = "failed"])
                /\ res' = Response("sign", 500)
           ELSE /\ Continue(r, [request EXCEPT
                                   !.pc = "writeFile",
                                   !.hashBefore = calculateHash(pdfBuffer),
                                   !.signedBuffer = <<signedBuffer>>,
                                   !.hashAfter = calculateHash(signedBuffer)])
                /\ UNCHANGED res
    /\ UNCHANGED <<documents, fields, auditLogs, uploads, signed, nextFieldId>>

\* lines 265-268: fs.writeFileSync under a fresh name
SignWriteFile(r) ==
    /\ calc.fn = "requests" /\ calc.req[r].pc = "writeFile"
    /\ signed' = Append(signed, calc.req[r].signedBuffer[1])
    /\ Continue(r, [calc.req[r] EXCEPT !.pc = "saveDocument",
                                        !.signedFileUrl = <<Len(signed) + 1>>])
    /\ UNCHANGED <<documents, fields, auditLogs, uploads, nextFieldId, res>>

\* SignSaveDocument with a seeded fault: the hash of the signed file is put
\* in the place of the original's too
SignSaveDocumentRehash(r) ==
    /\ calc.fn = "requests" /\ calc.req[r].pc = "saveDocument"
    /\ LET request == calc.req[r]
       IN  documents' = [documents EXCEPT ![request.documentId] =
               [@ EXCEPT !.signedFileUrl = request.signedFileUrl,
                         !.signedHash = request.hashAfter,
                         !.originalHash = request.hashAfter,
                         !.status = "signed"]]
    /\ Continue(r, [calc.req[r] EXCEPT !.pc = "createAudit"])
    /\ UNCHANGED <<fields, auditLogs, uploads, signed, nextFieldId, res>>

\* lines 270-275: document.save() writes the paths that were set
SignSaveDocument(r) ==
    /\ calc.fn = "requests" /\ calc.req[r].pc = "saveDocument"
    /\ LET request == calc.req[r]
       IN  documents' = [documents EXCEPT ![request.documentId] =
               [@ EXCEPT !.signedFileUrl = request.signedFileUrl,
                         !.signedHash = request.hashAfter,
                         !.status = "signed"]]
    /\ Continue(r, [calc.req[r] EXCEPT !.pc = "createAudit"])
    /\ UNCHANGED <<fields, auditLogs, uploads, signed, nextFieldId, res>>

\* lines 277-303: AuditLog.create and the response
SignCreateAudit(r) ==
    /\ calc.fn = "requests" /\ calc.req[r].pc = "createAudit"
    /\ Len(auditLogs) < MaxLog
    /\ LET request == calc.req[r]
       IN  auditLogs' = Append(auditLogs,
               AuditRecord(request.documentId, "signed", request.hashBefore,
                           request.hashAfter, 0, Len(request.fields)))
    /\ Continue(r, [calc.req[r] EXCEPT !.pc = "done"])
    /\ res' = Response("sign", 200)
    /\ UNCHANGED <<documents, fields, uploads, signed, nextFieldId>>

\* lines 305-308: a storage call (writeFileSync, document.save,
\* AuditLog.create) throws; the catch answers 500 and undoes nothing
SignStorageFails(r) ==
    /\ calc.fn = "requests"
    /\ calc.req[r].pc \in {"writeFile", "saveDocument", "createAudit"}
    /\ Continue(r, [calc.req[r] EXCEPT !.pc = "failed"])
    /\ res' = Response("sign", 500)
    /\ UNCHANGED <<documents, fields, auditLogs, uploads, signed, nextFieldId>>

\* the handlers that prepare a document, field values changing meanwhile
NextSteps ==
    \/ \E pages \in PageLists : UploadDocument("contract.pdf", pages)
    \/ \E d \in DocIds, t \in {"text", "date"}, p \in MarkPositions :
           CreateField(d, t, "undefined", p, "undefined")
    \/ \E id \in FieldIds, v \in {"text", "png"} : SetFieldValue(id, v)
    \/ \E r \in Requests, d \in DocIds : SignFindDocument(r, d)
    \/ \E r \in Requests : SignFindFields(r)
    \/ \E r \in Requests : SignEmbed(r)
    \/ \E r \in Requests : SignWriteFile(r)
    \/ \E r \in Requests : SignSaveDocument(r)
    \/ \E r \in Requests : SignCreateAudit(r)
    \/ \E r \in Requests : SignStorageFails(r)

SpecSteps == InitSteps /\ [][NextSteps]_vars

----------------------------------------------------------------------------
(* The renderers of images, check marks and radio fills, each applied to
   every target rectangle of a grid *)

\* largest width or height of a target rectangle, in PDen-ths of a point
MaxRect == 4

RenderRects == [x : {0, 5}, y : {0, 5}, width : 1..MaxRect, height : 1..MaxRect]
RenderKinds == {"image", "checkbox", "radio"}
\* a field with a value its renderer draws
RenderedField(kind) ==
    [_id |-> 1, fieldType |-> kind, position |-> [pageNumber |-> 1],
     value |-> IF kind = "image" THEN "png" ELSE "true"]

InitRender ==
    /\ BackendInit
    /\ calc \in [fn : {"render"}, kind : RenderKinds, coords : RenderRects,
                 done : {FALSE}, draws : {<<>>}]

RenderStep ==
    /\ calc.fn = "render" /\ ~calc.done
    /\ LET field == RenderedField(calc.kind)
           r == CASE calc.kind = "image" -> embedImage(field, calc.coords)
                  [] calc.kind = "checkbox" -> embedCheckmark(field, calc.coords)
                  [] calc.kind = "radio" -> embedRadioFill(field, calc.coords)
       IN  calc' = [calc EXCEPT !.done = TRUE, !.draws = r.draws]
    /\ UNCHANGED backendVars

NextRender == RenderStep

SpecRender == InitRender /\ [][NextRender]_vars

----------------------------------------------------------------------------
(* Properties *)

\* C1: transformToPdfCoordinates scales x and width by the page width and
\* puts y at H - yPercent*H - heightPercent*H (all in PDen-ths of a point);
\* on a page 800 high, yPercent 0 with heightPercent 0.1 gives 720 and
\* yPercent 0.9 with heightPercent 0.1 gives 0.
C1_AxisFlip ==
    calc.done =>
        LET p == calc.position
            W == calc.pdfWidth
            H == calc.pdfHeight
            r == calc.rect
        IN  /\ r.x = p.xPercent * W
            /\ r.width = p.widthPercent * W
            /\ r.y + p.yPercent * H + p.heightPercent * H = H * PDen
            /\ (H = 800 /\ p.yPercent = 0 /\ 10 * p.heightPercent = PDen)
                   => r.y = 720 * PDen
            /\ (H = 800 /\ 10 * p.yPercent = 9 * PDen /\ 10 * p.heightPercent = PDen)
                   => r.y = 0

\* a box one tenth high at nine tenths of a page 800 high was transformed
C1_Witness ==
    /\ calc.done
    /\ calc.pdfHeight = 800
    /\ 10 * calc.position.yPercent = 9 * PDen
    /\ 10 * calc.position.heightPercent = PDen
    /\ calc.rect.y = 0

\* C4: for all asset and box dimensions the fitted width and height keep the
\* asset's ratio (width * assetHeight = height * assetWidth) and stay within
\* the box.
C4_FitKeepsRatio ==
    calc.done =>
        /\ FEq(FMul(calc.fit.width, Num(calc.imgHeight)),
               FMul(calc.fit.height, Num(calc.imgWidth)))
        /\ FLe(calc.fit.width, Num(calc.boxWidth))
        /\ FLe(calc.fit.height, Num(calc.boxHeight))

\* C5: clamping twice gives what clamping once gives, for every position,
\* also those with percentages outside [0, 1].
C5_ClampIdempotent == calc.step = 2 => calc.r = calc.q

\* C6: the clamped position is no wider and no higher than the input, and
\* lies within the page: 0 <= x <= 1 - width, 0 <= y <= 1 - height.
C6_ClampWithinPage ==
    calc.step >= 1 =>
        /\ calc.q.widthPercent <= calc.p.widthPercent
        /\ calc.q.heightPercent <= calc.p.heightPercent
        /\ 0 <= calc.q.xPercent /\ calc.q.xPercent <= PDen - calc.q.widthPercent
        /\ 0 <= calc.q.yPercent /\ calc.q.yPercent <= PDen - calc.q.heightPercent
        /\ calc.q.xPercent + calc.q.widthPercent <= PDen
        /\ calc.q.yPercent + calc.q.heightPercent <= PDen

\* the audit records of one document, in append order
RecordsOf(d) == SelectSeq(auditLogs, LAMBDA rec : rec.documentId = d)

\* C2: for every document, an audit record's hashAfter equals the next
\* record's hashBefore whenever both are present.
C2_HashChain ==
    \A d \in 1..Len(documents) :
        LET recs == RecordsOf(d)
        IN  \A i \in 1..(Len(recs) - 1) :
                (recs[i].documentHashAfter # Absent
                 /\ recs[i + 1].documentHashBefore # Absent)
                    => recs[i].documentHashAfter = recs[i + 1].documentHashBefore

\* C3: a document's status changes only from draft to pending_signature, from
\* pending_signature to signed and from signed to completed.
C3_StatusOnlyForward ==
    [][\A d \in 1..Len(documents) :
           documents'[d].status # documents[d].status
               => <<documents[d].status, documents'[d].status>> \in
                      {<<"draft", "pending_signature">>,
                       <<"pending_signature", "signed">>,
                       <<"signed", "completed">>}]_vars

ValuedFields(d) ==
    {i \in DOMAIN fields :
        fields[i].documentId = d /\ fields[i].value \notin {"undefined", "null"}}
\* embedding field i into the stored original of its document throws
FailsToEmbed(i) ==
    ~EmbedField(uploads[documents[fields[i].documentId].originalFileUrl], fields[i]).ok

\* C7: a signing request on a document with a field whose embedding fails
\* does not succeed, and a signing request that does not succeed stores no
\* signed file, leaves the documents unchanged and appends no audit record.
C7_FailedEmbeddingAbortsSigning ==
    [][res'.op = "sign" =>
           IF res'.status = 200
           THEN \A i \in ValuedFields(auditLogs'[Len(auditLogs')].documentId) :
                    ~FailsToEmbed(i)
           ELSE UNCHANGED <<documents, auditLogs, signed>>]_vars

\* a signing request failed on a document where one field with a value had
\* been drawn before a later one threw
C7_Witness ==
    /\ res = Response("sign", 500)
    /\ \E i, j \in DOMAIN fields :
           /\ i < j
           /\ fields[i].documentId = fields[j].documentId
           /\ {i, j} \subseteq ValuedFields(fields[i].documentId)
           /\ ~FailsToEmbed(i)
           /\ EmbedField(uploads[documents[fields[i].documentId].originalFileUrl],
                         fields[i]).draws # <<>>
           /\ FailsToEmbed(j)

\* C8: every successful upload, field create, update, delete, value and sign
\* request appends an audit record.
C8_EveryMutationAudited ==
    [][(res'.op \in {"upload", "createField", "updateField", "deleteField",
                     "setFieldValue", "sign"}
        /\ res'.status \in {200, 201})
           => Len(auditLogs') = Len(auditLogs) + 1]_vars

\* C9: every audit record carries a hashBefore and a hashAfter.
C9_BothHashes ==
    \A i \in DOMAIN auditLogs :
        /\ auditLogs[i].documentHashBefore # Absent
        /\ auditLogs[i].documentHashAfter # Absent

\* C10: after a successful signing request the fields processed are exactly
\* the document's fields with a value: their number is the number recorded,
\* every draw of the signed file comes from one of them, and each of them
\* that renders (a mark only when its value is truthy) has its draw.
C10_OnlyValuedFieldsEmbedded ==
    res = Response("sign", 200) =>
        LET rec == auditLogs[Len(auditLogs)]
            out == signed[Len(signed)]
            valued == ValuedFields(rec.documentId)
        IN  /\ rec.details.fieldsProcessed = Cardinality(valued)
            /\ \A k \in DOMAIN out.draws :
                   \E i \in valued : fields[i]._id = out.draws[k].field
            /\ \A i \in valued :
                   (fields[i].fieldType \in {"checkbox", "radio"}
                        => Truthy(fields[i].value))
                       => \E k \in DOMAIN out.draws :
                              out.draws[k].field = fields[i]._id

\* a document with one field without a value and one with a value was signed
C10_Witness ==
    /\ res = Response("sign", 200)
    /\ LET d == auditLogs[Len(auditLogs)].documentId
       IN  /\ \E i \in DOMAIN fields :
                  fields[i].documentId = d /\ fields[i].value \in {"undefined", "null"}
           /\ ValuedFields(d) # {}
           /\ signed[Len(signed)].draws # <<>>

\* the draw calls of a signed file that come from the field with this _id
DrawsOf(out, id) == {k \in DOMAIN out.draws : out.draws[k].field = id}

\* C11: after a successful signing request, every checkbox or radio field of
\* the document whose stored value is falsy (false, null or none) has no draw
\* call in the signed file, and every one whose value is truthy has exactly
\* one.
C11_MarkDrawnOnlyWhenTruthy ==
    res = Response("sign", 200) =>
        LET out == signed[Len(signed)]
            d == auditLogs[Len(auditLogs)].documentId
        IN  \A i \in DOMAIN fields :
                (fields[i].documentId = d /\ fields[i].fieldType \in {"checkbox", "radio"})
                    => Cardinality(DrawsOf(out, fields[i]._id)) =
                           IF fields[i].value \in {"false", "null", "undefined"}
                           THEN 0 ELSE 1

\* a document with a checkbox whose value is false and a radio button whose
\* value is true was signed: the file has the one draw of the radio button
C11_Witness ==
    /\ res = Response("sign", 200)
    /\ \E i, j \in DOMAIN fields :
           /\ fields[i].fieldType = "checkbox" /\ fields[i].value = "false"
           /\ fields[j].fieldType = "radio" /\ fields[j].value = "true"
           /\ DrawsOf(signed[Len(signed)], fields[i]._id) = {}
           /\ Cardinality(DrawsOf(signed[Len(signed)], fields[j]._id)) = 1
    /\ Len(signed[Len(signed)].draws) = 1

\* the position 0.1, 0.8, 0.3, 0.1 placed on the 595 x 842 page with the
\* 300 x 100 asset
Scenario12 ==
    /\ calc.step = 2
    /\ calc.pdfWidth = 595 /\ calc.pdfHeight = 842
    /\ calc.asset = <<300, 100>>
    /\ 10 * calc.position.xPercent = 1 * PDen
    /\ 10 * calc.position.yPercent = 8 * PDen
    /\ 10 * calc.position.widthPercent = 3 * PDen
    /\ 10 * calc.position.heightPercent = 1 * PDen

\* C12 as stated: in that scenario the target rectangle is x = 59.5, y = 0,
\* width = 178.5, height = 84.2, and the fitted asset fills the box width
\* with zero vertical offset.
C12_ScenarioAsStated ==
    Scenario12 =>
        /\ FEq(Frac(calc.rect.x), <<595, 10>>)
        /\ FEq(Frac(calc.rect.y), Zero)
        /\ FEq(Frac(calc.rect.width), <<1785, 10>>)
        /\ FEq(Frac(calc.rect.height), <<842, 10>>)
        /\ FEq(calc.fit.width, Frac(calc.rect.width))
        /\ FEq(calc.fit.offsetY, Zero)

\* C12 amended: in that scenario the target rectangle is x = 59.5, y = 84.2,
\* width = 178.5, height = 84.2, and the fitted asset fills the box width
\* (178.5 wide, 59.5 high) with no horizontal offset and a vertical offset
\* of 12.35.
C12_Scenario ==
    Scenario12 =>
        /\ FEq(Frac(calc.rect.x), <<595, 10>>)
        /\ FEq(Frac(calc.rect.y), <<842, 10>>)
        /\ FEq(Frac(calc.rect.width), <<1785, 10>>)
        /\ FEq(Frac(calc.rect.height), <<842, 10>>)
        /\ FEq(calc.fit.width, Frac(calc.rect.width))
        /\ FEq(calc.fit.height, <<595, 10>>)
        /\ FEq(calc.fit.offsetX, Zero)
        /\ FEq(calc.fit.offsetY, <<1235, 100>>)

\* the scenario was placed and the asset came out as wide as its box
C12_Witness == Scenario12 /\ FEq(calc.fit.width, <<1785, 10>>)

C14_ClampFullSize ==
    calc.step >= 1 =>
        /\ calc.p.widthPercent >= PDen
               => (calc.q.widthPercent = PDen /\ calc.q.xPercent = 0)
        /\ calc.p.heightPercent >= PDen
               => (calc.q.heightPercent = PDen /\ calc.q.yPercent = 0)

\* C15: every stored field has each percentage in [0, 1] and does not reach
\* over the page: xPercent + widthPercent <= 1, yPercent + heightPercent <= 1.
C15_StoredFieldWithinPage ==
    \A i \in DOMAIN fields :
        LET p == fields[i].position
        IN  /\ \A v \in {p.xPercent, p.yPercent, p.widthPercent, p.heightPercent} :
                   0 <= v /\ v <= PDen
            /\ p.xPercent + p.widthPercent <= PDen
            /\ p.yPercent + p.heightPercent <= PDen

\* one of the four percentages is below 0 or above 1
Outside01(p) ==
    \/ p.xPercent < 0 \/ p.xPercent > PDen
    \/ p.yPercent < 0 \/ p.yPercent > PDen
    \/ p.widthPercent < 0 \/ p.widthPercent > PDen
    \/ p.heightPercent < 0 \/ p.heightPercent > PDen

\* C17: a create-field or update-field request whose position has a
\* percentage outside [0, 1] is answered with an error status, and the
\* stored fields (label and required flag of the target included), the
\* documents and the audit log are as before.
C17_InvalidGeometryRejected ==
    [][\A p \in FieldPositions, l \in FieldLabels, r \in FieldFlags :
           Outside01(p) =>
               /\ \A d \in DocIds :
                      CreateField(d, "signature", l, p, r)
                          => /\ res'.status >= 400
                             /\ UNCHANGED <<fields, documents, auditLogs>>
               /\ \A id \in FieldIds :
                      UpdateField(id, <<p>>, l, r)
                          => /\ res'.status >= 400
                             /\ UNCHANGED <<fields, documents, auditLogs>>]_vars

\* an update of a stored field was answered 400, which is the answer to a
\* position outside [0, 1] only
C17_Witness ==
    /\ res = Response("updateField", 400)
    /\ fields # <<>>
    /\ Len(auditLogs) = 2

\* C16: a signing request for a document none of whose fields has a value is
\* answered with an error status; no signed file is stored, the document
\* (status, signedHash, signedFileUrl) is as before and no audit record is
\* appended.
C16_EmptyFieldSetRejected ==
    [][\A d \in DocIds :
           (/\ SignPdf(d)
            /\ d \in 1..Len(documents)
            /\ \A i \in DOMAIN fields :
                   fields[i].documentId = d
                       => fields[i].value \in {"undefined", "null"})
               => /\ res'.status >= 400
                  /\ UNCHANGED <<documents, auditLogs, signed>>]_vars

\* a signing request was refused for a document that has fields, none with a
\* value, one of them null
C16_Witness ==
    /\ res = Response("sign", 400)
    /\ \E i \in DOMAIN fields : fields[i].value = "null"
    /\ \A i \in DOMAIN fields : fields[i].value \in {"undefined", "null"}
    /\ signed = <<>>

\* C18: a signing request never succeeds on a stored original whose digest
\* differs from the hash recorded at upload: the hashBefore of every 'signed'
\* audit record, the digest of the bytes that were signed, is the document's
\* originalHash.
C18_TamperedOriginalNotSigned ==
    \A i \in DOMAIN auditLogs :
        auditLogs[i].action = "signed"
            => auditLogs[i].documentHashBefore =
                   documents[auditLogs[i].documentId].originalHash

\* the expected hash has a character that is no hex digit, or is no string,
\* or has not the length of a digest
Malformed(expectedHash, buffer) ==
    \/ expectedHash = NotAString
    \/ \E i \in DOMAIN expectedHash : expectedHash[i] \notin HexDigits
    \/ Len(expectedHash) # Len(HexDigest(buffer))

\* C19: verifyHash is true when the expected hash is the digest of the
\* buffer, false when it is the digest of a buffer that differs in a byte,
\* and false when the expected hash is malformed or of the wrong length.
C19_VerifyHash ==
    calc.done =>
        /\ calc.expectedHash = HexDigest(calc.buffer) => calc.result
        /\ (\E other \in Buffers \ {calc.buffer} :
                calc.expectedHash = HexDigest(other)) => ~calc.result
        /\ Malformed(calc.expectedHash, calc.buffer) => ~calc.result

\* C20: every 'signed' audit record carries a hashBefore, the digest of the
\* stored original that was loaded, and a hashAfter, the digest of a file
\* written under signed/.
C20_SignedRecordBothHashes ==
    \A i \in DOMAIN auditLogs :
        auditLogs[i].action = "signed" =>
            LET rec == auditLogs[i]
                document == documents[rec.documentId]
            IN  /\ rec.documentHashBefore # Absent
                /\ rec.documentHashAfter # Absent
                /\ rec.documentHashBefore =
                       <<"sha256", uploads[document.originalFileUrl]>>
                /\ \E k \in DOMAIN signed :
                       signed[k].saved /\ rec.documentHashAfter = <<"sha256", signed[k]>>

\* a document was signed and its record has two different hashes
C20_Witness ==
    \E i \in DOMAIN auditLogs :
        /\ auditLogs[i].action = "signed"
        /\ auditLogs[i].documentHashBefore # Absent
        /\ auditLogs[i].documentHashAfter # Absent
        /\ auditLogs[i].documentHashBefore # auditLogs[i].documentHashAfter

\* C21: the audit log is append-only: no step of upload, field create,
\* update, delete, set value, sign or audit retrieval changes or removes a
\* record; the log after the step starts with the log before it.
C21_AuditLogAppendOnly ==
    [][/\ Len(auditLogs') >= Len(auditLogs)
       /\ SubSeq(auditLogs', 1, Len(auditLogs)) = auditLogs]_vars

\* the audit trail was read after a field had been added and deleted: the
\* records of the upload, the add and the delete are there in that order
C21_Witness ==
    /\ res = Response("getAudit", 200)
    /\ Len(auditLogs) >= 3
    /\ auditLogs[1].action = "uploaded"
    /\ auditLogs[2].action = "field_added"
    /\ \E i \in DOMAIN auditLogs :
           auditLogs[i].action = "field_deleted"
           /\ auditLogs[i].details.fieldId = auditLogs[2].details.fieldId

\* C22: browserToNormalized never returns a position with a NaN or an
\* infinite percentage, also when the container is 0 wide or 0 high.
C22_NormalizedIsFinite ==
    calc.step >= 1 =>
        /\ IsFinite(calc.normalized.xPercent)
        /\ IsFinite(calc.normalized.yPercent)
        /\ IsFinite(calc.normalized.widthPercent)
        /\ IsFinite(calc.normalized.heightPercent)

\* C23: containImageInBox never returns a width, height or offset that is
\* NaN or infinite, also when the asset or the box is 0 high.
C23_FitIsFinite ==
    calc.done =>
        /\ IsFinite(calc.fit.width)
        /\ IsFinite(calc.fit.height)
        /\ IsFinite(calc.fit.offsetX)
        /\ IsFinite(calc.fit.offsetY)

\* C24: every position given to onUpdate by a drag or a resize lies in the
\* page: 0 <= xPercent, 0 <= yPercent, xPercent + widthPercent <= 1 and
\* yPercent + heightPercent <= 1.
C24_EmittedPositionWithinPage ==
    (calc.fn = "overlay" /\ calc.emitted # <<>>) =>
        LET p == calc.emitted[1]
        IN  /\ FLe(Zero, p.xPercent)
            /\ FLe(Zero, p.yPercent)
            /\ FLe(FAdd(p.xPercent, p.widthPercent), Num(1))
            /\ FLe(FAdd(p.yPercent, p.heightPercent), Num(1))

\* C25: once a field of the toolbar was dropped on the page, the drop
\* handler has issued a field-add for the type that was dragged, with a
\* position inside the page.
C25_DropAddsField ==
    (calc.fn = "dnd" /\ calc.phase = "dropped") =>
        /\ calc.fieldAdd # <<>>
        /\ LET add == calc.fieldAdd[1]
           IN  /\ add.fieldType = calc.item.type
               /\ FLe(Zero, add.position.xPercent)
               /\ FLe(Zero, add.position.yPercent)
               /\ FLe(FAdd(add.position.xPercent, add.position.widthPercent), Num(1))
               /\ FLe(FAdd(add.position.yPercent, add.position.heightPercent), Num(1))

\* C26: for every position with all percentages in [0, 1],
\* xPercent + widthPercent <= 1 and yPercent + heightPercent <= 1, the
\* rectangle of transformToPdfCoordinates lies in the page: 0 <= x,
\* x + width <= W, 0 <= y, y + height <= H (in PDen-ths of a point).
C26_RectangleInsidePage ==
    (calc.done
     /\ calc.position.xPercent + calc.position.widthPercent <= PDen
     /\ calc.position.yPercent + calc.position.heightPercent <= PDen) =>
        /\ 0 <= calc.rect.x
        /\ calc.rect.x + calc.rect.width <= calc.pdfWidth * PDen
        /\ 0 <= calc.rect.y
        /\ calc.rect.y + calc.rect.height <= calc.pdfHeight * PDen

\* a position that touches the right and the bottom edge of the page was
\* transformed: its rectangle ends at W and starts at y = 0
C26_Witness ==
    /\ calc.done
    /\ calc.position.xPercent > 0 /\ calc.position.yPercent > 0
    /\ calc.position.xPercent + calc.position.widthPercent = PDen
    /\ calc.position.yPercent + calc.position.heightPercent = PDen
    /\ calc.rect.x + calc.rect.width = calc.pdfWidth * PDen
    /\ calc.rect.y = 0

\* C27: what a renderer draws lies in the target rectangle: the image at
\* offsets >= 0 with offset + fitted size <= box size, the check mark in
\* the centred square of side 0.6 x the shorter side, the radio fill in
\* the centred circle of radius 0.3 x the shorter side.
C27_DrawnInsideRectangle ==
    calc.done =>
        LET drawn == calc.draws[1]
            d == [x |-> Reduce(drawn.x), y |-> Reduce(drawn.y),
                  width |-> Reduce(drawn.width), height |-> Reduce(drawn.height),
                  size |-> Reduce(drawn.size)]
            left == Frac(calc.coords.x)
            bottom == Frac(calc.coords.y)
            right == FAdd(left, Frac(calc.coords.width))
            top == FAdd(bottom, Frac(calc.coords.height))
            shorter == Frac(Min(calc.coords.width, calc.coords.height))
        IN  /\ Len(calc.draws) = 1
            /\ calc.kind = "image" =>
                   /\ FLe(left, d.x) /\ FLe(FAdd(d.x, d.width), right)
                   /\ FLe(bottom, d.y) /\ FLe(FAdd(d.y, d.height), top)
            /\ calc.kind = "checkbox" =>
                   /\ FEq(d.size, FMul(shorter, <<6, 10>>))
                   /\ FLe(left, d.x) /\ FLe(FAdd(d.x, d.size), right)
                   /\ FLe(bottom, d.y) /\ FLe(FAdd(d.y, d.size), top)
            /\ calc.kind = "radio" =>
                   /\ FEq(d.size, FMul(shorter, <<3, 10>>))
                   /\ FLe(left, FSub(d.x, d.size)) /\ FLe(FAdd(d.x, d.size), right)
                   /\ FLe(bottom, FSub(d.y, d.size)) /\ FLe(FAdd(d.y, d.size), top)

\* a radio fill was drawn into a rectangle higher than wide, away from the
\* origin
C27_Witness ==
    /\ calc.done /\ calc.kind = "radio"
    /\ calc.coords.x > 0 /\ calc.coords.width < calc.coords.height
    /\ Len(calc.draws) = 1
    /\ calc.draws[1].op = "drawCircle"

\* C28: no step of a signing request, succeeding or failing, changes the
\* stored originals, a document's originalHash, originalFileUrl or page
\* metadata, or a field; a step changes of a document only signedFileUrl,
\* signedHash and status, stores at most one new signed file and appends
\* at most one audit record, and the step that completes the request
\* appends the one 'signed' record, of the one file the request stored.
C28_SignFrame ==
    [][calc'.req # calc.req =>
           /\ uploads' = uploads
           /\ fields' = fields
           /\ nextFieldId' = nextFieldId
           /\ Len(documents') = Len(documents)
           /\ \A d \in DOMAIN documents :
                  documents'[d] = [documents[d] EXCEPT
                                      !.signedFileUrl = documents'[d].signedFileUrl,
                                      !.signedHash = documents'[d].signedHash,
                                      !.status = documents'[d].status]
           /\ signed' = signed \/ (Len(signed') = Len(signed) + 1
                                    /\ SubSeq(signed', 1, Len(signed)) = signed)
           /\ auditLogs' = auditLogs \/ (Len(auditLogs') = Len(auditLogs) + 1
                                          /\ SubSeq(auditLogs', 1, Len(auditLogs)) = auditLogs)
           /\ \A r \in Requests :
                  (calc'.req[r].pc = "done" /\ calc.req[r].pc # "done") =>
                      /\ Len(auditLogs') = Len(auditLogs) + 1
                      /\ auditLogs'[Len(auditLogs')].action = "signed"
                      /\ auditLogs'[Len(auditLogs')].documentHashAfter =
                             <<"sha256", signed[calc.req[r].signedFileUrl[1]]>>]_vars

\* a request signed a document with a date field: the field has its raw
\* value and the document the hash recorded at upload
C28_Witness ==
    /\ calc.fn = "requests"
    /\ \E r \in Requests :
           /\ calc.req[r].pc = "done"
           /\ documents[calc.req[r].documentId].status = "signed"
           /\ documents[calc.req[r].documentId].originalHash =
                  <<"sha256", uploads[documents[calc.req[r].documentId].originalFileUrl]>>
    /\ \E i \in DOMAIN fields : fields[i].fieldType = "date" /\ fields[i].value = "text"

\* the 'signed' audit records of a document, in append order
SignedRecordsOf(d) ==
    SelectSeq(auditLogs, LAMBDA rec : rec.documentId = d /\ rec.action = "signed")

\* C29: once all the concurrent signing requests have completed, the
\* document's signedHash is the hashAfter of its last 'signed' record, and
\* its signedFileUrl names the file with that hash.
C29_LastSigningWins ==
    (calc.fn = "requests" /\ \A r \in Requests : calc.req[r].pc = "done") =>
        \A d \in DOMAIN documents :
            LET recs == SignedRecordsOf(d)
            IN  recs # <<>> =>
                    /\ documents[d].signedHash = recs[Len(recs)].documentHashAfter
                    /\ <<"sha256", signed[documents[d].signedFileUrl[1]]>> =
                           recs[Len(recs)].documentHashAfter

\* C30: when no signing request is under way, a failed one included, a
\* document whose status is 'signed' has a 'signed' audit record whose
\* hashAfter is the document's signedHash.
C30_SignedHasAuditRecord ==
    (calc.fn = "requests"
     /\ \A r \in Requests : calc.req[r].pc \in {"idle", "done", "failed"}) =>
        \A d \in DOMAIN documents :
            documents[d].status = "signed" =>
                \E i \in DOMAIN auditLogs :
                    /\ auditLogs[i].documentId = d
                    /\ auditLogs[i].action = "signed"
                    /\ auditLogs[i].documentHashAfter = documents[d].signedHash

====
